---- MODULE Spec2Model ----
(***************************************************************************)
(* Model of src/checkimports.py: a straight-line script that imports       *)
(* agent_framework.observability, prints dir() of it, and prints the name  *)
(* of every module pkgutil.walk_packages yields under agent_framework.     *)
(*                                                                         *)
(* The installed package is the script's only input.  It is modelled as a  *)
(* directory tree of entries (modules, regular packages with __init__,     *)
(* directories without __init__), what loading each one does (succeeds,    *)
(* raises ImportError, raises another exception), and the namespace of the *)
(* observability submodule.  Package code is taken to write nothing to     *)
(* stdout itself, and every regular package to have a one-entry __path__.  *)
(*                                                                         *)
(* Text is modelled as sequences of tokens: stdout is the stream of tokens *)
(* written, "\n" being the newline token; a dotted module name is the      *)
(* sequence of its components and "." tokens.                              *)
(***************************************************************************)
EXTENDS Naturals, Sequences, FiniteSets, TLC

VARIABLES
    package,      \* the installed package: [installed, load, tree, ns]
    pc,           \* the line the script is about to execute, or "exit"
    stdout,       \* token stream written to standard output
    exitStatus,   \* process exit status (meaningful when pc = "exit")
    sys_modules,  \* paths of the modules loaded so far (<<>> is the root)
    obs,          \* <<>> or <<path>>: what line 1 bound the name obs to
    m,            \* <<>> or <<info>>: the loop variable of line 8
    gen,          \* the walk_packages generator: [stack, pending]
    run,          \* "first" or "second" run of the script
    prev          \* <<>> or <<[stdout, exitStatus]>>: what the first run produced

vars == <<package, pc, stdout, exitStatus, sys_modules, obs, m, gen, run, prev>>

(***************************************************************************)
(* Bounds of the model.                                                    *)
(***************************************************************************)
\* Largest number of files and directories below the package's root.
MaxEntries == 3

(***************************************************************************)
(* Literals of the script.                                                 *)
(***************************************************************************)
Header1 == "=== Available in agent_framework.observability ==="

Header2 == "=== All submodules in agent_framework ==="

NL == "\n"

\* agent_framework.__name__
RootName == "agent_framework"

\* the submodule named on line 1
ObsStem == "observability"

\* the path of agent_framework.observability below the root
ObsPath == <<ObsStem>>

(***************************************************************************)
(* The file names a package directory may hold, in the order in which      *)
(* iter_modules yields them (it sorts the directory listing).  "my-mod" is *)
(* a file stem that is no identifier.                                      *)
(***************************************************************************)
StemOrder == <<"core", "my-mod", "observability">>

Stems == {StemOrder[i] : i \in DOMAIN StemOrder}

\* str.isidentifier() on the name components that occur
IsIdentifier(tok) == tok \in {"agent_framework", "core", "observability"}

(***************************************************************************)
(* Names of a module namespace, in the order sorted() gives them.          *)
(***************************************************************************)
NameOrder ==
    <<"__builtins__", "__cached__", "__dir__", "__doc__", "__file__", "__loader__",
      "__name__", "__package__", "__path__", "__spec__", "_helper", "ghost",
      "tracer">>

\* names that start with an underscore
IsUnderscore(n) ==
    n \in {"__builtins__", "__cached__", "__dir__", "__doc__", "__file__", "__loader__",
           "__name__", "__package__", "__path__", "__spec__", "_helper"}

\* what the import system sets on every module it loads from a file
ModuleDunders ==
    {"__builtins__", "__cached__", "__doc__", "__file__", "__loader__",
     "__name__", "__package__", "__spec__"}

\* what the import system sets on a namespace package (no file is run)
NamespaceDunders ==
    {"__doc__", "__file__", "__loader__", "__name__", "__package__",
     "__path__", "__spec__"}

(***************************************************************************)
(* The installed package.                                                  *)
(***************************************************************************)
Loads == {"ok", "ImportError", "Exception"}

\* what a tree entry can be: a directory without __init__ runs no code
Entries ==
    [kind : {"module", "package"}, load : Loads]
    \cup {[kind |-> "nsdir", load |-> "ok"]}

Parent(p) == SubSeq(p, 1, Len(p) - 1)

\* prefix-closed sets of at most k paths
RECURSIVE Shapes(_)
Shapes(k) ==
    IF k = 0 THEN {{}}
    ELSE LET smaller == Shapes(k - 1)
         IN  smaller \cup
             UNION {{t \cup {Append(p, s)} : p \in t \cup {<<>>}, s \in Stems}
                    : t \in smaller}

\* a file has no children; only agent_framework.observability is loaded as a
\* plain module, so only its load outcome is varied
WellFormed(t) ==
    \A p \in DOMAIN t :
        /\ Len(p) > 1 => t[Parent(p)].kind # "module"
        /\ (t[p].kind = "module" /\ p # ObsPath) => t[p].load = "ok"

Trees ==
    UNION {{t \in [shape -> Entries] : WellFormed(t)} : shape \in Shapes(MaxEntries)}

\* the namespace of the observability module: the names its code binds and
\* the result of its module-level __dir__ hook, if it defines one
Namespaces ==
    {[names |-> {"tracer", "_helper"}, hook |-> <<>>],
     [names |-> {"tracer", "_helper"}, hook |-> <<{"ghost", "tracer"}>>]}

\* the namespace of a submodule that is never loaded
NoNamespace == [names |-> {}, hook |-> <<>>]

EmptyTree == [p \in {} |-> [kind |-> "module", load |-> "ok"]]

(***************************************************************************)
(* Text: print, repr of a list of names, and reading stdout back as lines. *)
(***************************************************************************)
\* print(x): the text of x followed by a newline
Printed(out, toks) == out \o toks \o <<NL>>

\* position of the first newline token of s, or 0
RECURSIVE FirstNL(_, _)
FirstNL(s, i) ==
    IF i > Len(s) THEN 0 ELSE IF s[i] = NL THEN i ELSE FirstNL(s, i + 1)

\* the lines of a stream, as a reader of stdout splits it
RECURSIVE Lines(_)
Lines(s) ==
    IF s = <<>> THEN <<>>
    ELSE LET i == FirstNL(s, 1)
         IN  IF i = 0 THEN <<s>>
             ELSE <<SubSeq(s, 1, i - 1)>> \o Lines(SubSeq(s, i + 1, Len(s)))

\* the members of set S in sorted order
Sorted(S) == SelectSeq(NameOrder, LAMBDA n : n \in S)

RECURSIVE ReprItems(_)
ReprItems(names) ==
    IF names = <<>> THEN <<>>
    ELSE <<"'", Head(names), "'">>
         \o (IF Len(names) > 1 THEN <<", ">> ELSE <<>>)
         \o ReprItems(Tail(names))

\* str() of a list of strings: ['a', 'b']
ReprList(names) == <<"[">> \o ReprItems(names) \o <<"]">>

\* the names a printed list holds, read back from its line
ParseList(line) ==
    {line[i] : i \in {j \in 2..(Len(line) - 1) :
                        line[j - 1] = "'" /\ line[j + 1] = "'" /\ line[j] # ", "}}

(***************************************************************************)
(* Modules: loading, namespaces, dir().                                    *)
(***************************************************************************)
Installed == package.installed

Tree == package.tree

Exists(p) == p \in DOMAIN Tree

\* what importing the module at path p does when it is not loaded yet
LoadOutcome(p) ==
    IF p = <<>> THEN (IF Installed THEN package.load ELSE "ImportError")
    ELSE IF Exists(p) THEN Tree[p].load ELSE "ImportError"

\* import of a dotted name: every package on the way is loaded first, and a
\* module found in sys.modules is not loaded again
RECURSIVE ImportOutcome(_, _)
ImportOutcome(p, loaded) ==
    LET above == IF p = <<>> THEN "ok" ELSE ImportOutcome(Parent(p), loaded)
    IN  IF above # "ok" THEN above
        ELSE IF p \in loaded THEN "ok"
        ELSE LoadOutcome(p)

\* the path and every path above it
Ancestry(p) == {SubSeq(p, 1, i) : i \in 0..Len(p)}

\* the keys of the __dict__ of the loaded module at path p
ModuleDict(p) ==
    IF Tree[p].kind = "nsdir" THEN NamespaceDunders
    ELSE ModuleDunders
         \cup (IF Tree[p].kind = "package" THEN {"__path__"} ELSE {})
         \cup (IF p = ObsPath THEN package.ns.names ELSE {})
         \cup (IF p = ObsPath /\ package.ns.hook # <<>> THEN {"__dir__"} ELSE {})

\* the module-level __dir__ hook of the module at p: <<>> or <<result>>
DirHook(p) ==
    IF p = ObsPath /\ Tree[p].kind # "nsdir" THEN package.ns.hook ELSE <<>>

\* mutant of Dir: underscore names filtered out of the listing
DirPublicOnly(p) ==
    SelectSeq(IF DirHook(p) # <<>> THEN Sorted(DirHook(p)[1]) ELSE Sorted(ModuleDict(p)),
              LAMBDA n : ~IsUnderscore(n))

\* mutant of Dir: the names the module declares for export, bound or not
DirDeclared(p) ==
    IF DirHook(p) # <<>> THEN Sorted(DirHook(p)[1])
    ELSE Sorted(ModuleDict(p) \cup {"ghost"})

\* dir(module): the sorted result of the module's __dir__ hook when it
\* defines one, the sorted keys of its __dict__ otherwise
Dir(p) ==
    IF DirHook(p) # <<>> THEN Sorted(DirHook(p)[1]) ELSE Sorted(ModuleDict(p))

\* getattr(module, n) resolves
HasAttr(p, n) == n \in ModuleDict(p)

(***************************************************************************)
(* pkgutil.iter_modules and pkgutil.walk_packages.                         *)
(***************************************************************************)
\* mutant of RootPrefix: walk_packages called without a prefix
NoPrefix == <<>>

\* agent_framework.__name__ + '.'
RootPrefix == <<RootName, ".">>

\* the dotted name of the module at path p
RECURSIVE DottedName(_)
DottedName(p) ==
    IF p = <<>> THEN <<RootName>>
    ELSE DottedName(Parent(p)) \o <<".", p[Len(p)]>>

Reverse(s) == [i \in DOMAIN s |-> s[Len(s) + 1 - i]]

\* mutant of IterModules: the directory listing is not sorted, so its order
\* is whatever the file system gives in that run
IterModulesUnsorted(dir, prefix) ==
    LET sorted == SelectSeq(StemOrder,
                            LAMBDA s : /\ Exists(Append(dir, s))
                                       /\ Tree[Append(dir, s)].kind # "nsdir")
        listed == IF run = "second" THEN Reverse(sorted) ELSE sorted
    IN  [i \in DOMAIN listed |->
            [name  |-> prefix \o <<listed[i]>>,
             ispkg |-> Tree[Append(dir, listed[i])].kind = "package",
             path  |-> Append(dir, listed[i])]]

\* iter_modules([dir], prefix): one ModuleInfo per module file and per
\* directory holding an __init__, in sorted order; a directory without
\* __init__ is skipped
IterModules(dir, prefix) ==
    LET listed == SelectSeq(StemOrder,
                            LAMBDA s : /\ Exists(Append(dir, s))
                                       /\ Tree[Append(dir, s)].kind # "nsdir")
    IN  [i \in DOMAIN listed |->
            [name  |-> prefix \o <<listed[i]>>,
             ispkg |-> Tree[Append(dir, listed[i])].kind = "package",
             path  |-> Append(dir, listed[i])]]

\* mutant of WalkImport: no try/except around __import__
WalkImportUnguarded(info, loaded) ==
    IF ImportOutcome(info.path, loaded) = "ok" THEN "descend" ELSE "raise"

\* what walk_packages does with __import__(info.name) of a package it has
\* just yielded: "descend" into it, "skip" it (ImportError, no onerror
\* given), or "raise" (any other exception, no onerror given)
WalkImport(info, loaded) ==
    LET outcome == ImportOutcome(info.path, loaded)
    IN  IF outcome = "ok" THEN "descend"
        ELSE IF outcome = "ImportError" THEN "skip"
        ELSE "raise"

\* the frames of the generator that still have something to yield
RECURSIVE DropExhausted(_)
DropExhausted(stack) ==
    IF stack = <<>> THEN <<>>
    ELSE IF stack[Len(stack)] = <<>>
         THEN DropExhausted(SubSeq(stack, 1, Len(stack) - 1))
         ELSE stack

\* mutant of AfterPending: iter_modules in place of walk_packages, no descent
AfterPendingFlat(g, loaded) == g.stack

\* the generator's frames once it has dealt with the info it yielded last:
\* a package that imports gets a nested walk_packages over its __path__
AfterPending(g, loaded) ==
    IF g.pending # <<>> /\ g.pending[1].ispkg
       /\ WalkImport(g.pending[1], loaded) = "descend"
    THEN Append(g.stack,
                IterModules(g.pending[1].path, g.pending[1].name \o <<".">>))
    ELSE g.stack

\* whether resuming the generator raises
ResumeRaises(g, loaded) ==
    /\ g.pending # <<>>
    /\ g.pending[1].ispkg
    /\ WalkImport(g.pending[1], loaded) = "raise"

NewGenerator == [stack |-> <<>>, pending |-> <<>>]

(***************************************************************************)
(* The script, one action per statement.                                   *)
(***************************************************************************)
Exit(status) ==
    /\ pc' = "exit"
    /\ exitStatus' = status

\* mutant of ImportObs: the first header is printed before the import
ImportObsAfterHeader ==
    /\ pc = "L1"
    /\ stdout' = Printed(stdout, <<Header1>>)
    /\ IF ImportOutcome(ObsPath, sys_modules) = "ok"
       THEN /\ sys_modules' = sys_modules \cup Ancestry(ObsPath)
            /\ obs' = <<ObsPath>>
            /\ pc' = "L3"
            /\ UNCHANGED exitStatus
       ELSE /\ Exit(1)
            /\ UNCHANGED <<sys_modules, obs>>
    /\ UNCHANGED <<package, m, gen, run, prev>>

\* line 1: import agent_framework.observability as obs
ImportObs ==
    /\ pc = "L1"
    /\ IF ImportOutcome(ObsPath, sys_modules) = "ok"
       THEN /\ sys_modules' = sys_modules \cup Ancestry(ObsPath)
            /\ obs' = <<ObsPath>>
            /\ pc' = "L2"
            /\ UNCHANGED exitStatus
       ELSE /\ Exit(1)
            /\ UNCHANGED <<sys_modules, obs>>
    /\ UNCHANGED <<package, stdout, m, gen, run, prev>>

\* mutant of PrintHeader1: the header is printed after the attribute list
PrintHeader1Late ==
    /\ pc = "L2"
    /\ stdout' = Printed(Printed(stdout, ReprList(Dir(obs[1]))), <<Header1>>)
    /\ pc' = "L5"
    /\ UNCHANGED <<package, exitStatus, sys_modules, obs, m, gen, run, prev>>

\* line 2: print("=== Available in agent_framework.observability ===")
PrintHeader1 ==
    /\ pc = "L2"
    /\ stdout' = Printed(stdout, <<Header1>>)
    /\ pc' = "L3"
    /\ UNCHANGED <<package, exitStatus, sys_modules, obs, m, gen, run, prev>>

\* line 3: print(dir(obs))
PrintDir ==
    /\ pc = "L3"
    /\ stdout' = Printed(stdout, ReprList(Dir(obs[1])))
    /\ pc' = "L5"
    /\ UNCHANGED <<package, exitStatus, sys_modules, obs, m, gen, run, prev>>

\* mutant of PrintHeader2: the header without its leading newline
PrintHeader2NoBlank ==
    /\ pc = "L5"
    /\ stdout' = Printed(stdout, <<Header2>>)
    /\ pc' = "L6"
    /\ UNCHANGED <<package, exitStatus, sys_modules, obs, m, gen, run, prev>>

\* mutant of PrintHeader2: the statement is missing
PrintHeader2Skipped ==
    /\ pc = "L5"
    /\ pc' = "L6"
    /\ UNCHANGED <<package, stdout, exitStatus, sys_modules, obs, m, gen, run, prev>>

\* line 5: print("\n=== All submodules in agent_framework ===")
PrintHeader2 ==
    /\ pc = "L5"
    /\ stdout' = Printed(stdout, <<NL, Header2>>)
    /\ pc' = "L6"
    /\ UNCHANGED <<package, exitStatus, sys_modules, obs, m, gen, run, prev>>

\* lines 6-7: import agent_framework; import pkgutil (a standard-library
\* module, which always loads)
ImportRoot ==
    /\ pc = "L6"
    /\ IF ImportOutcome(<<>>, sys_modules) = "ok"
       THEN /\ sys_modules' = sys_modules \cup {<<>>}
            /\ pc' = "L8"
            /\ UNCHANGED exitStatus
       ELSE /\ Exit(1)
            /\ UNCHANGED sys_modules
    /\ UNCHANGED <<package, stdout, obs, m, gen, run, prev>>

\* line 8, first evaluation: walk_packages(agent_framework.__path__,
\* agent_framework.__name__ + '.') creates the generator
StartWalk ==
    /\ pc = "L8"
    /\ gen' = [stack |-> <<IterModules(<<>>, RootPrefix)>>, pending |-> <<>>]
    /\ pc' = "L8next"
    /\ UNCHANGED <<package, stdout, exitStatus, sys_modules, obs, m, run, prev>>

\* lines 8-9, one iteration: the for statement resumes the generator, which
\* first imports the package it yielded last; then either the generator
\* raises, or it is exhausted and the script ends, or it yields the next
\* ModuleInfo and the body prints its name
ForNext ==
    /\ pc = "L8next"
    /\ IF ResumeRaises(gen, sys_modules)
       THEN /\ Exit(1)
            /\ UNCHANGED <<stdout, sys_modules, m, gen>>
       ELSE LET descended == AfterPending(gen, sys_modules) # gen.stack
                stack     == DropExhausted(AfterPending(gen, sys_modules))
            IN  /\ sys_modules' = IF descended
                                  THEN sys_modules \cup {gen.pending[1].path}
                                  ELSE sys_modules
                /\ IF stack = <<>>
                   THEN /\ gen' = NewGenerator
                        /\ Exit(0)
                        /\ UNCHANGED <<stdout, m>>
                   ELSE LET top  == stack[Len(stack)]
                            info == Head(top)
                        IN  /\ gen' = [stack   |-> [stack EXCEPT ![Len(stack)] = Tail(top)],
                                       pending |-> <<info>>]
                            /\ m' = <<info>>
                            /\ stdout' = Printed(stdout, info.name)
                            /\ UNCHANGED <<pc, exitStatus>>
    /\ UNCHANGED <<package, obs, run, prev>>

\* the script is run again, in a new process, on the unchanged package
Rerun ==
    /\ pc = "exit"
    /\ run = "first"
    /\ run' = "second"
    /\ prev' = <<[stdout |-> stdout, exitStatus |-> exitStatus]>>
    /\ pc' = "L1"
    /\ stdout' = <<>>
    /\ exitStatus' = 0
    /\ sys_modules' = {}
    /\ obs' = <<>>
    /\ m' = <<>>
    /\ gen' = NewGenerator
    /\ UNCHANGED package

\* the packages the script is run against
Packages ==
    {[installed |-> FALSE, load |-> "ok", tree |-> EmptyTree, ns |-> NoNamespace]}
    \cup {[installed |-> TRUE, load |-> l, tree |-> EmptyTree, ns |-> NoNamespace]
          : l \in Loads \ {"ok"}}
    \cup {pk \in [installed : {TRUE}, load : {"ok"}, tree : Trees,
                   ns : Namespaces \cup {NoNamespace}] :
            pk.ns # NoNamespace <=>
                /\ ObsPath \in DOMAIN pk.tree
                /\ pk.tree[ObsPath].kind # "nsdir"
                /\ pk.tree[ObsPath].load = "ok"}

Init ==
    /\ package \in Packages
    /\ pc = "L1"
    /\ stdout = <<>>
    /\ exitStatus = 0
    /\ sys_modules = {}
    /\ obs = <<>>
    /\ m = <<>>
    /\ gen = NewGenerator
    /\ run = "first"
    /\ prev = <<>>

Next ==
    \/ ImportObs
    \/ PrintHeader1
    \/ PrintDir
    \/ PrintHeader2
    \/ ImportRoot
    \/ StartWalk
    \/ ForNext

Spec == Init /\ [][Next]_vars

NextTwice ==
    \/ Next
    \/ Rerun

SpecTwice == Init /\ [][NextTwice]_vars

(***************************************************************************)
(* Vocabulary of the properties.  L stands for the lines of stdout.        *)
(***************************************************************************)
OutLines == Lines(stdout)

ExitedOk == pc = "exit" /\ exitStatus = 0

\* the modules of the package, as the names a walk can print
ModuleNames == {DottedName(p) : p \in DOMAIN Tree}

\* positions of the second header, of a printed list, of a module's name
HeaderTwoAt(L) ==
    {i \in DOMAIN L : L[i] = <<"=== All submodules in agent_framework ===">>}

AttrLineAt(L) == {i \in DOMAIN L : L[i] # <<>> /\ L[i][1] = "["}

NameLineAt(L) == LET names == ModuleNames IN {i \in DOMAIN L : L[i] \in names}

\* positions of the lines that follow the second header
WalkSectionAt(L) ==
    LET heads == HeaderTwoAt(L) IN {i \in DOMAIN L : \E h \in heads : h < i}

\* positions at which the name of the module at path p is printed
PrintedAt(L, p) ==
    LET name == DottedName(p) IN {i \in WalkSectionAt(L) : L[i] = name}

\* a fresh interpreter can import the module at path p
Importable(p) == ImportOutcome(p, {}) = "ok"

\* the module at p is a file or a directory with __init__, and every
\* package enclosing it below the root is a regular package that loads
Walked(p) ==
    /\ Tree[p].kind # "nsdir"
    /\ \A k \in 1..(Len(p) - 1) :
          /\ Tree[SubSeq(p, 1, k)].kind = "package"
          /\ Tree[SubSeq(p, 1, k)].load = "ok"

\* a dotted identifier: identifiers separated by "."
ValidDotted(l) ==
    /\ Len(l) % 2 = 1
    /\ \A i \in DOMAIN l : IF i % 2 = 1 THEN IsIdentifier(l[i]) ELSE l[i] = "."

\* the package that the generator is importing when it is resumed
WalkRaisedOn ==
    IF gen.pending # <<>> /\ gen.pending[1].ispkg
    THEN {gen.pending[1].path} ELSE {}

(***************************************************************************)
(* The properties.                                                         *)
(***************************************************************************)

\* C1: when agent_framework or agent_framework.observability cannot be
\* imported, the script exits with a non-zero status and stdout is empty.
C1_ImportFailureBeforeOutput ==
    (pc = "exit" /\ ~Importable(ObsPath)) =>
        (exitStatus # 0 /\ Len(OutLines) = 0)

C1_Witness ==
    /\ pc = "exit"
    /\ ~Installed
    /\ exitStatus # 0
    /\ stdout = <<>>

\* C2 as stated: once output has begun, the script exits with status zero.
C2_Original ==
    (pc = "exit" /\ stdout # <<>>) => exitStatus = 0

\* C2 as amended: once the first header is printed the script always has a
\* next step until it exits; it exits with a non-zero status exactly when
\* walk_packages was importing a sub-package that raised an exception other
\* than ImportError (the output is then partial); the second import of
\* agent_framework never fails, and a run that exits with status zero
\* walked no such sub-package.
C2_ExitAfterOutput ==
    /\ (stdout # <<>> /\ pc # "exit") => ENABLED Next
    /\ (pc = "exit" /\ stdout # <<>>) =>
          LET L == OutLines
          IN  /\ exitStatus # 0 <=>
                    \E p \in WalkRaisedOn :
                        /\ p \notin sys_modules
                        /\ Tree[p].load = "Exception"
              /\ exitStatus # 0 => <<>> \in sys_modules /\ Len(L) >= 5
              /\ exitStatus = 0 =>
                    \A p \in DOMAIN Tree :
                        (Tree[p].kind = "package" /\ Tree[p].load = "Exception")
                            => PrintedAt(L, p) = {}

C2_Witness ==
    /\ pc = "exit"
    /\ exitStatus # 0
    /\ Len(OutLines) >= 6

\* C3 as stated: a successful run prints two headers, the attribute line and
\* one line per discovered module, and no blank or other line.
C3_Original ==
    ExitedOk =>
        LET L == OutLines
        IN  /\ Len(L) = 3 + Cardinality({p \in DOMAIN Tree : Walked(p)})
            /\ \A i \in DOMAIN L : L[i] # <<>>

\* C3 as amended: a successful run prints exactly the first header, the
\* attribute line, one empty line, the second header, and one line per
\* discovered module.
C3_OutputShape ==
    ExitedOk =>
        LET L == OutLines
            names == ModuleNames
        IN  /\ Len(L) = 4 + Cardinality({p \in DOMAIN Tree : Walked(p)})
            /\ L[1] = <<"=== Available in agent_framework.observability ===">>
            /\ AttrLineAt(L) = {2}
            /\ L[3] = <<>>
            /\ HeaderTwoAt(L) = {4}
            /\ \A i \in 5..Len(L) : L[i] \in names

C3_Witness ==
    /\ ExitedOk
    /\ Len(OutLines) >= 6

\* C4 as stated: no name of the printed attribute collection starts with an
\* underscore.
C4_Original ==
    LET L == OutLines
    IN  \A i \in AttrLineAt(L) : \A n \in ParseList(L[i]) : ~IsUnderscore(n)

\* C4 as amended: the printed collection is the sorted list of every name
\* of the submodule's namespace, private and dunder names included (it
\* always holds __name__ and __doc__), unless the submodule defines a
\* module-level __dir__ hook, and then it is the sorted result of the hook.
C4_WholeNamespace ==
    LET L == OutLines
    IN  \A i \in AttrLineAt(L) :
            IF DirHook(ObsPath) = <<>>
            THEN /\ L[i] = ReprList(Sorted(ModuleDict(ObsPath)))
                 /\ ParseList(L[i]) = ModuleDict(ObsPath)
                 /\ {"__name__", "__doc__"} \subseteq ParseList(L[i])
            ELSE ParseList(L[i]) = DirHook(ObsPath)[1]

C4_Witness ==
    LET L == OutLines
    IN  /\ AttrLineAt(L) # {}
        /\ \A i \in AttrLineAt(L) :
              {"_helper", "__name__", "tracer"} \subseteq ParseList(L[i])

\* C5 as stated: a successful run lists every importable submodule of the
\* package, at any depth, exactly once.
C5_Original ==
    ExitedOk =>
        LET L == OutLines
        IN  \A p \in DOMAIN Tree :
                Importable(p) => Cardinality(PrintedAt(L, p)) = 1

\* C5 as amended: a successful run lists exactly once every module and
\* every regular package all of whose enclosing packages are regular
\* packages that load, at any depth, and lists nothing else: not a
\* directory without __init__ or anything below one, and nothing below a
\* package whose import raises ImportError.
C5_WalkListsRegularPackages ==
    ExitedOk =>
        LET L == OutLines
        IN  \A p \in DOMAIN Tree :
                Cardinality(PrintedAt(L, p)) = IF Walked(p) THEN 1 ELSE 0

C5_Witness ==
    /\ ExitedOk
    /\ \E p \in DOMAIN Tree : Len(p) = 2 /\ PrintedAt(OutLines, p) # {}
    /\ \E p \in DOMAIN Tree : Tree[p].kind = "package" /\ Tree[p].load = "ImportError"

\* C6: whenever something has been printed, the first line of stdout is the
\* fixed header of the first section and the attribute collection comes
\* after it; the header is there as soon as line 2 has run.
C6_FirstLineIsHeader ==
    /\ stdout # <<>> =>
          LET L == OutLines
          IN  /\ L[1] = <<"=== Available in agent_framework.observability ===">>
              /\ \A i \in AttrLineAt(L) : i > 1
    /\ (obs # <<>> /\ pc \notin {"L1", "L2"}) => stdout # <<>>

C6_Witness ==
    /\ Installed
    /\ pc = "L5"
    /\ Len(OutLines) = 2

\* C7: the second header is printed at most once, after the attribute
\* line; no module name is printed before it; a successful run printed it
\* exactly once.
C7_SecondHeaderOnce ==
    LET L     == OutLines
        heads == HeaderTwoAt(L)
        attrs == AttrLineAt(L)
    IN  /\ Cardinality(heads) <= 1
        /\ \A h \in heads :
              /\ attrs # {}
              /\ \A a \in attrs : a < h
        /\ \A n \in NameLineAt(L) : \E h \in heads : h < n
        /\ pc \in {"L6", "L8", "L8next"} => Cardinality(heads) = 1
        /\ ExitedOk => Cardinality(heads) = 1

C7_Witness ==
    /\ ExitedOk
    /\ Cardinality(NameLineAt(OutLines)) >= 2

\* C8 as stated: every line of the walk section is a valid dotted
\* identifier that begins with "agent_framework.".
C8_Original ==
    LET L == OutLines
    IN  \A i \in WalkSectionAt(L) :
            /\ Len(L[i]) >= 3
            /\ SubSeq(L[i], 1, 2) = <<"agent_framework", ".">>
            /\ ValidDotted(L[i])

\* C8 as amended: every line of the walk section is "agent_framework."
\* followed by the "."-separated file stems of an entry of the package; it
\* is a valid dotted identifier exactly when each of those stems is an
\* identifier.
C8_NamesUnderRoot ==
    LET L == OutLines
    IN  \A i \in WalkSectionAt(L) :
            /\ Len(L[i]) >= 3
            /\ SubSeq(L[i], 1, 2) = <<"agent_framework", ".">>
            /\ \E p \in DOMAIN Tree :
                  /\ Len(L[i]) = 2 * Len(p) + 1
                  /\ \A k \in DOMAIN p : L[i][2 * k] = "." /\ L[i][2 * k + 1] = p[k]
                  /\ ValidDotted(L[i]) <=> \A k \in DOMAIN p : IsIdentifier(p[k])

C8_Witness ==
    LET L == OutLines
    IN  \E i \in WalkSectionAt(L) : Len(L[i]) = 5 /\ ValidDotted(L[i])

\* C9 as stated: every name of the printed attribute collection resolves as
\* an attribute of the loaded submodule.
C9_Original ==
    LET L == OutLines
    IN  \A i \in AttrLineAt(L) : \A n \in ParseList(L[i]) : HasAttr(ObsPath, n)

\* C9 as amended: every name of the printed attribute collection resolves
\* as an attribute of the loaded submodule when the submodule defines no
\* module-level __dir__ hook; when it does, every printed name is one the
\* hook returned.
C9_NamesResolve ==
    LET L == OutLines
    IN  \A i \in AttrLineAt(L) : \A n \in ParseList(L[i]) :
            IF DirHook(ObsPath) = <<>>
            THEN HasAttr(ObsPath, n)
            ELSE n \in DirHook(ObsPath)[1]

C9_Witness ==
    LET L == OutLines
    IN  /\ AttrLineAt(L) # {}
        /\ DirHook(ObsPath) = <<>>
        /\ \A i \in AttrLineAt(L) : "tracer" \in ParseList(L[i])

====
